---- MODULE Spec2Model ----
(***************************************************************************)
(* The consumption-event store of src/server.js.  The file holds three     *)
(* programs, each with its own store and its own three operations          *)
(* log_consumption, list_consumption and summarize_intake:                 *)
(*   "http" - lines   1..101, in-memory array db, HTTP/JSON dispatch;      *)
(*   "mcp"  - lines 105..211, in-memory array db, tool-protocol server;    *)
(*   "pg"   - lines 213..422, Postgres table consumption_events.           *)
(* A behaviour of the model is a run of one of the three programs.         *)
(***************************************************************************)
EXTENDS Integers, Sequences, FiniteSets, TLC

VARIABLES
    binding,     \* which of the three programs is running
    pgTimeZone,  \* pg: the session TimeZone (hours east of UTC) DATE(ts) uses
    db,          \* http, mcp: the array db
    table,       \* pg: the committed rows of consumption_events
    tx,          \* pg: per pooled connection, the log_consumption call in flight
    pre,         \* the store as it was when the last completed call started
    req,         \* the last completed call: operation and input
    resp         \* what the last completed call returned or threw

vars == <<binding, pgTimeZone, db, table, tx, pre, req, resp>>

(***************************************************************************)
(* Bounds of the model.                                                    *)
(***************************************************************************)
MaxStore == 3    \* a log_consumption call is taken only while the store fits
MaxBatch == 2    \* longest events array submitted in one call
MaxQueryBatch == 1    \* the same, in the query specification
MaxPgBatch == 2    \* the same, in the transaction specification
MaxConcurrentBatch == 1    \* the same, in the concurrent specification

(***************************************************************************)
(* JavaScript values.  A string field is a string, Undef when the property *)
(* is missing.  A numeric field is a natural number, NoNum when it is      *)
(* missing, null or not of type number.  An id is a positive integer       *)
(* standing for an opaque string, NoId when missing or empty.              *)
(***************************************************************************)
Undef == "<undefined>"
NoNum == -1
NoId == 0

Falsy(s) == s \in {Undef, ""}

(***************************************************************************)
(* Timestamps.  A timestamp string "YYYY-MM-DDTHH:00:00.000<zone>" is the  *)
(* record of its calendar-date prefix d (a day number), its hour h and its *)
(* zone offset off in hours (0 is "Z", so off = 0 strings are exactly the  *)
(* ones Date.prototype.toISOString produces).  k tells these from the      *)
(* empty string and from a missing property.                               *)
(***************************************************************************)
Ts(d, h, off) == [k |-> "iso", d |-> d, h |-> h, off |-> off]
TsFalsy(t) == t.k # "iso"

\* new Date(e.timestamp): the instant, in hours since day 0 00:00 UTC.
NewDate(t) == (t.d * 24 + t.h) - t.off

\* r.ts.toISOString(): the UTC rendering of an instant.
ToISOString(inst) == Ts(inst \div 24, inst % 24, 0)

\* DATE(ts) of a timestamptz: the calendar day in the session TimeZone.
PgDate(inst, tz) == (inst + tz) \div 24

(***************************************************************************)
(* Raw events, as a caller submits them.                                   *)
(***************************************************************************)
Ev(id, user, ts, item, amount, unit, source, cal, notes) ==
    [id |-> id, user_id |-> user, timestamp |-> ts, item |-> item,
     amount |-> amount, unit |-> unit, source |-> source,
     calories |-> cal, notes |-> notes]

\* Inputs of the ingestion specification: an id submitted twice with
\* different fields, optional fields left out, a submitted id equal to one
\* the server generates, an offset timestamp, a missing unit and a unit
\* outside the enumeration.
EvTea == Ev(7, "a", Ts(1, 10, 0), "tea", 150, "ml", "app", 100, "hot")
EvMilk == Ev(7, Undef, Ts(2, 23, 0), "milk", 0, "ml", Undef, NoNum, Undef)
EvEgg == Ev(NoId, "b", Ts(3, 23, -2), "egg", 2, "piece", "app", 50, Undef)
EvRice == Ev(1, "a", Ts(2, 10, 0), "rice", 100, "g", "app", NoNum, Undef)
EvNoUnit == Ev(2, "a", Ts(1, 10, 0), "rice", 100, Undef, "app", NoNum, Undef)
EvKg == Ev(NoId, "a", Ts(1, 10, 0), "rice", 1, "kg", "app", NoNum, Undef)

IngestEvents == {EvTea, EvMilk, EvEgg, EvRice, EvNoUnit, EvKg}

\* Inputs of the query specification: events of two owners on three
\* calendar days, with and without calories, one late in its day, and one
\* invalid event.
EvQ1 == Ev(NoId, "a", Ts(1, 10, 0), "tea", 150, "ml", "app", 100, Undef)
EvQ2 == Ev(NoId, "a", Ts(3, 23, 0), "egg", 2, "piece", "app", NoNum, Undef)
EvQ3 == Ev(NoId, "a", Ts(5, 10, 0), "rice", 100, "g", "app", 50, Undef)
EvQ4 == Ev(NoId, "b", Ts(3, 10, 0), "milk", 200, "ml", "app", 50, Undef)

QueryEvents == {EvQ1, EvQ2, EvQ3, EvQ4, EvNoUnit}

\* Inputs of the replacement specification: two events under one id, the
\* second with the optional fields left out, an event without an id and an
\* invalid event.
UpsertEvents == {EvTea, EvMilk, EvEgg, EvNoUnit}

\* Inputs of the transaction specification: a valid event, an invalid one
\* and one the table's CHECK constraint rejects.
TxEvents == {EvTea, EvNoUnit, EvKg}

\* Inputs of the concurrent specification: two events under one id and an
\* invalid event.
ConcurrentEvents == {EvTea, EvMilk, EvNoUnit}

Batches(E, max) == UNION {[1..n -> E] : n \in 0..max}

\* Filters {user_id, from, to}: "" is a missing owner, 0 a missing date.
Filter(u, from, to) == [user_id |-> u, from |-> from, to |-> to]
NoFilter == Filter("", 0, 0)
IngestFilters == {NoFilter, Filter("a", 0, 0)}
DateRanges == {<<0, 0>>, <<2, 4>>, <<3, 3>>, <<0, 3>>, <<4, 0>>}
QueryFilters == {Filter(u, r[1], r[2]) : u \in {"", "a", "b"}, r \in DateRanges}

(***************************************************************************)
(* Requests and responses.                                                 *)
(***************************************************************************)
Req(op, events, filter, user) ==
    [op |-> op, events |-> events, filter |-> filter, user |-> user]
ReqNone == Req("none", <<>>, NoFilter, Undef)

Resp(kind, error, saved, events, total, count) ==
    [kind |-> kind, error |-> error, saved_count |-> saved, events |-> events,
     total_calories |-> total, events_count |-> count]
RespNone == Resp("none", "", 0, <<>>, 0, 0)
RespSaved(n) == Resp("saved", "", n, <<>>, 0, 0)
RespError(msg) == Resp("error", msg, 0, <<>>, 0, 0)
RespEvents(evs) == Resp("events", "", 0, evs, 0, 0)
RespSummary(total, count) == Resp("summary", "", 0, <<>>, total, count)

IdsOf(s) == {s[i].id : i \in 1..Len(s)}

\* crypto.randomUUID() / nanoid(): an id no record in use carries.
randomUUID(used) ==
    CHOOSE n \in 1..(Cardinality(used) + 1) :
        /\ n \notin used
        /\ \A m \in 1..(n - 1) : m \in used

(***************************************************************************)
(* The in-memory HTTP binding (lines 1..101).                              *)
(***************************************************************************)
\* line 22, negated: the event passes the check.
HttpValid(e) ==
    ~(TsFalsy(e.timestamp) \/ Falsy(e.item) \/ e.amount = NoNum \/ Falsy(e.unit))

\* lines 25..34: the object pushed; it has no notes property.
HttpRecord(e, id) ==
    [id |-> id,
     user_id |-> IF Falsy(e.user_id) THEN "u1" ELSE e.user_id,
     timestamp |-> e.timestamp,
     item |-> e.item,
     amount |-> e.amount,
     unit |-> e.unit,
     source |-> IF Falsy(e.source) THEN "manual" ELSE e.source,
     calories |-> e.calories,
     notes |-> Undef]

\* lines 21..36: the loop from event i on; a throw leaves what was pushed.
RECURSIVE HttpLogLoop(_, _, _)
HttpLogLoop(store, events, i) ==
    IF i > Len(events) THEN [db |-> store, resp |-> RespSaved(Len(events))]
    ELSE IF ~HttpValid(events[i]) THEN [db |-> store, resp |-> RespError("Invalid event")]
    ELSE HttpLogLoop(Append(store, HttpRecord(events[i], randomUUID(IdsOf(store)))),
                     events, i + 1)

\* line 41
HttpIso(t) == IF TsFalsy(t) THEN 0 ELSE t.d

\* The filter callback without its owner test (line 43 left out).
HttpMatchesAnyOwner(e, f) ==
    /\ ~(f.from # 0 /\ HttpIso(e.timestamp) < f.from)
    /\ ~(f.to # 0 /\ HttpIso(e.timestamp) > f.to)

\* lines 42..48: the filter callback.
HttpMatches(e, f) ==
    /\ ~(~Falsy(f.user_id) /\ e.user_id # f.user_id)
    /\ ~(f.from # 0 /\ HttpIso(e.timestamp) < f.from)
    /\ ~(f.to # 0 /\ HttpIso(e.timestamp) > f.to)

HttpList(store, f) == SelectSeq(store, LAMBDA e : HttpMatches(e, f))

\* line 55: events.reduce((s, e) => s + (e.calories || 0), 0)
RECURSIVE HttpTotal(_)
HttpTotal(events) ==
    IF events = <<>> THEN 0
    ELSE HttpTotal(SubSeq(events, 1, Len(events) - 1))
         + (IF events[Len(events)].calories = NoNum THEN 0
            ELSE events[Len(events)].calories)

\* lines 52..57
HttpSummarize(store, f) ==
    RespSummary(HttpTotal(HttpList(store, f)), Len(HttpList(store, f)))

\* The call with a rollback written as db.length = 0: a rejected batch
\* empties the array.
http_log_consumption_truncating(events) ==
    /\ binding = "http"
    /\ Len(db) + Len(events) <= MaxStore
    /\ db' = IF HttpLogLoop(db, events, 1).resp.kind = "error"
             THEN <<>> ELSE HttpLogLoop(db, events, 1).db
    /\ resp' = HttpLogLoop(db, events, 1).resp
    /\ req' = Req("log_consumption", events, NoFilter, Undef)
    /\ pre' = db
    /\ UNCHANGED <<binding, pgTimeZone, table, tx>>

http_log_consumption(events) ==
    /\ binding = "http"
    /\ Len(db) + Len(events) <= MaxStore
    /\ db' = HttpLogLoop(db, events, 1).db
    /\ resp' = HttpLogLoop(db, events, 1).resp
    /\ req' = Req("log_consumption", events, NoFilter, Undef)
    /\ pre' = db
    /\ UNCHANGED <<binding, pgTimeZone, table, tx>>

\* The listing with db.sort(...) by timestamp before the filter: the array
\* is sorted in place.
SortedByTimestamp(store) ==
    CHOOSE s \in [1..Len(store) -> {store[k] : k \in DOMAIN store}] :
        /\ \E p \in [1..Len(store) -> 1..Len(store)] :
               /\ \A i, j \in 1..Len(store) : i # j => p[i] # p[j]
               /\ \A i \in 1..Len(store) : s[i] = store[p[i]]
        /\ \A i, j \in 1..Len(store) :
               i < j => s[i].timestamp.d * 24 + s[i].timestamp.h
                            <= s[j].timestamp.d * 24 + s[j].timestamp.h

http_list_consumption_sorting_in_place(f) ==
    /\ binding = "http"
    /\ db' = SortedByTimestamp(db)
    /\ resp' = RespEvents(HttpList(SortedByTimestamp(db), f))
    /\ req' = Req("list_consumption", <<>>, f, Undef)
    /\ pre' = db
    /\ UNCHANGED <<binding, pgTimeZone, table, tx>>

http_list_consumption(f) ==
    /\ binding = "http"
    /\ resp' = RespEvents(HttpList(db, f))
    /\ req' = Req("list_consumption", <<>>, f, Undef)
    /\ pre' = db
    /\ UNCHANGED <<binding, pgTimeZone, db, table, tx>>

http_summarize_intake(f) ==
    /\ binding = "http"
    /\ resp' = HttpSummarize(db, f)
    /\ req' = Req("summarize_intake", <<>>, f, Undef)
    /\ pre' = db
    /\ UNCHANGED <<binding, pgTimeZone, db, table, tx>>

(***************************************************************************)
(* The tool-protocol binding (lines 105..211).                             *)
(***************************************************************************)
Units == {"g", "ml", "piece", "serving"}

\* lines 112..127: required properties, property types, the unit enum.  A
\* string property of any content passes its type check, "" included.
validate(e) ==
    /\ e.timestamp.k # "undef"
    /\ e.item # Undef
    /\ e.amount # NoNum
    /\ e.unit # Undef
    /\ e.source # Undef
    /\ e.unit \in Units

\* lines 172..174: the submitted object itself, id and user_id filled in.
McpRecord(e, uid, id) ==
    [e EXCEPT !.id = IF e.id = NoId THEN id ELSE e.id,
              !.user_id = IF Falsy(e.user_id) THEN uid ELSE e.user_id]

\* lines 170..176: forEach from event i on; a throw leaves what was pushed.
RECURSIVE McpLogLoop(_, _, _, _)
McpLogLoop(store, events, uid, i) ==
    IF i > Len(events) THEN [db |-> store, resp |-> RespSaved(Len(events))]
    ELSE IF ~validate(events[i]) THEN [db |-> store, resp |-> RespError("Invalid event")]
    ELSE McpLogLoop(Append(store, McpRecord(events[i], uid, randomUUID(IdsOf(store)))),
                    events, uid, i + 1)

\* line 129
iso(t) == IF t.k = "iso" THEN t.d ELSE 0

\* lines 131..137: the filter callback of list(uid, from, to).
McpMatches(e, f) ==
    /\ ~(~Falsy(f.user_id) /\ e.user_id # f.user_id)
    /\ ~(f.from # 0 /\ iso(e.timestamp) < f.from)
    /\ ~(f.to # 0 /\ iso(e.timestamp) > f.to)

list(store, f) == SelectSeq(store, LAMBDA e : McpMatches(e, f))

\* line 205: ev.reduce((sum, e) => sum + (e.calories ?? 0), 0)
RECURSIVE McpTotal(_)
McpTotal(ev) ==
    IF ev = <<>> THEN 0
    ELSE McpTotal(SubSeq(ev, 1, Len(ev) - 1))
         + (IF ev[Len(ev)].calories = NoNum THEN 0 ELSE ev[Len(ev)].calories)

\* lines 203..207
McpSummarize(store, f) == RespSummary(McpTotal(list(store, f)), Len(list(store, f)))

\* line 169: user?.id, when the transport authenticated a user.
McpUsers == {Undef, "b"}

mcp_log_consumption(events, user) ==
    /\ binding = "mcp"
    /\ Len(db) + Len(events) <= MaxStore
    /\ LET uid == IF Falsy(user) THEN "u1" ELSE user
           out == McpLogLoop(db, events, uid, 1)
       IN  /\ db' = out.db
           /\ resp' = out.resp
    /\ req' = Req("log_consumption", events, NoFilter, user)
    /\ pre' = db
    /\ UNCHANGED <<binding, pgTimeZone, table, tx>>

mcp_list_consumption(f) ==
    /\ binding = "mcp"
    /\ resp' = RespEvents(list(db, f))
    /\ req' = Req("list_consumption", <<>>, f, Undef)
    /\ pre' = db
    /\ UNCHANGED <<binding, pgTimeZone, db, table, tx>>

mcp_summarize_intake(f) ==
    /\ binding = "mcp"
    /\ resp' = McpSummarize(db, f)
    /\ req' = Req("summarize_intake", <<>>, f, Undef)
    /\ pre' = db
    /\ UNCHANGED <<binding, pgTimeZone, db, table, tx>>

(***************************************************************************)
(* The relational binding (lines 213..422).  A row of consumption_events   *)
(* holds ts as an instant; table is the committed rows.  A log_consumption *)
(* call runs in steps, one per awaited query on its pooled connection.     *)
(***************************************************************************)
Conns == {"c1", "c2"}

\* A connection's record: the position of the call that holds it, the
\* call's loop state, the statements the call has sent so far (cmds),
\* whether the connection is checked out of the pool (held) and how many
\* times the call has released it.  After a call, cmds and released stay
\* until the next call on the connection.
TxIdle == [pc |-> "idle", events |-> <<>>, i |-> 0, writes |-> <<>>,
           pre |-> {}, error |-> "", cmds |-> <<>>, held |-> FALSE, released |-> 0]

\* line 315: finally { client.release() }, after the statement stmt that
\* ended the call.
Release(t, stmt) ==
    [TxIdle EXCEPT !.cmds = Append(t.cmds, stmt), !.released = t.released + 1]

\* line 292, negated: the event passes the check.
PgValid(e) ==
    ~(TsFalsy(e.timestamp) \/ Falsy(e.item) \/ e.amount = NoNum \/ Falsy(e.unit))

\* lines 295..307: the parameters of the INSERT.
PgRow(e, id) ==
    [id |-> IF e.id = NoId THEN id ELSE e.id,
     user_id |-> IF Falsy(e.user_id) THEN "u1" ELSE e.user_id,
     ts |-> NewDate(e.timestamp),
     item |-> e.item,
     amount |-> e.amount,
     unit |-> e.unit,
     source |-> IF Falsy(e.source) THEN "manual" ELSE e.source,
     calories |-> e.calories,
     notes |-> e.notes]

\* lines 243..247: the NOT NULL and CHECK constraints of the table.
PgConstraints(row) ==
    /\ row.item # Undef
    /\ row.amount # NoNum
    /\ row.source # Undef
    /\ row.unit \in {"g", "ml", "piece", "serving"}

\* The statement with ON CONFLICT (id) DO NOTHING: the first row written
\* under an id stays.
PgInsertDoNothing(rows, row) ==
    IF \E r \in rows : r.id = row.id THEN rows ELSE rows \cup {row}

\* lines 277..289: INSERT ... ON CONFLICT (id) DO UPDATE SET every column.
PgUpsert(rows, row) == {r \in rows : r.id # row.id} \cup {row}

\* COMMIT: the transaction's writes, in order, onto the committed rows.
RECURSIVE PgApply(_, _)
PgApply(rows, writes) ==
    IF writes = <<>> THEN rows
    ELSE PgApply(PgUpsert(rows, Head(writes)), Tail(writes))

\* ids in use: committed, or written by a transaction still open.
PgIdsInUse == {r.id : r \in table} \cup UNION {IdsOf(tx[c].writes) : c \in Conns}

\* lines 269..271: no events, no connection.
pg_log_consumption_empty ==
    /\ binding = "pg"
    /\ resp' = RespSaved(0)
    /\ req' = Req("log_consumption", <<>>, NoFilter, Undef)
    /\ pre' = table
    /\ UNCHANGED <<binding, pgTimeZone, db, table, tx>>

\* lines 273..275: pool.connect() and BEGIN.
pg_log_consumption_begin(c, events) ==
    /\ binding = "pg"
    /\ tx[c].pc = "idle"
    /\ events # <<>>
    /\ Cardinality(table) + Len(events) <= MaxStore
    /\ tx' = [tx EXCEPT ![c] = [pc |-> "loop", events |-> events, i |-> 1,
                                writes |-> <<>>, pre |-> table, error |-> "",
                                cmds |-> <<"BEGIN">>, held |-> TRUE,
                                released |-> 0]]
    /\ UNCHANGED <<binding, pgTimeZone, db, table, pre, req, resp>>

\* lines 291..308: one turn of the loop.  The INSERT waits while another
\* open transaction holds the row of that id.
pg_log_consumption_insert(c) ==
    /\ binding = "pg"
    /\ tx[c].pc = "loop"
    /\ tx[c].i <= Len(tx[c].events)
    /\ LET e == tx[c].events[tx[c].i]
           row == PgRow(e, randomUUID(PgIdsInUse))
       IN  IF ~PgValid(e)
           THEN tx' = [tx EXCEPT ![c].pc = "failed", ![c].error = "Invalid event"]
           ELSE IF ~PgConstraints(row)
           THEN tx' = [tx EXCEPT ![c].pc = "failed",
                                 ![c].error = "violates check constraint",
                                 ![c].cmds = Append(@, "INSERT")]
           ELSE /\ \A o \in Conns \ {c} : row.id \notin IdsOf(tx[o].writes)
                /\ tx' = [tx EXCEPT ![c].writes = Append(@, row), ![c].i = @ + 1,
                                    ![c].cmds = Append(@, "INSERT")]
    /\ UNCHANGED <<binding, pgTimeZone, db, table, pre, req, resp>>

\* The commit with saved_count taken from the rows the transaction added to
\* the table rather than from the events submitted: a replaced record goes
\* uncounted.
pg_log_consumption_commit_counting_rows(c) ==
    /\ binding = "pg"
    /\ tx[c].pc = "loop"
    /\ tx[c].i > Len(tx[c].events)
    /\ table' = PgApply(table, tx[c].writes)
    /\ resp' = RespSaved(Cardinality(PgApply(table, tx[c].writes)) - Cardinality(table))
    /\ req' = Req("log_consumption", tx[c].events, NoFilter, Undef)
    /\ pre' = tx[c].pre
    /\ tx' = [tx EXCEPT ![c] = Release(tx[c], "COMMIT")]
    /\ UNCHANGED <<binding, pgTimeZone, db>>

\* lines 309..310 and 315: COMMIT, return, release.
pg_log_consumption_commit(c) ==
    /\ binding = "pg"
    /\ tx[c].pc = "loop"
    /\ tx[c].i > Len(tx[c].events)
    /\ table' = PgApply(table, tx[c].writes)
    /\ resp' = RespSaved(Len(tx[c].events))
    /\ req' = Req("log_consumption", tx[c].events, NoFilter, Undef)
    /\ pre' = tx[c].pre
    /\ tx' = [tx EXCEPT ![c] = Release(tx[c], "COMMIT")]
    /\ UNCHANGED <<binding, pgTimeZone, db>>

\* The catch block ending the transaction with COMMIT: what the failed call
\* wrote is kept.
pg_log_consumption_rollback_committing(c) ==
    /\ binding = "pg"
    /\ tx[c].pc = "failed"
    /\ table' = PgApply(table, tx[c].writes)
    /\ resp' = RespError(tx[c].error)
    /\ req' = Req("log_consumption", tx[c].events, NoFilter, Undef)
    /\ pre' = tx[c].pre
    /\ tx' = [tx EXCEPT ![c] = Release(tx[c], "COMMIT")]
    /\ UNCHANGED <<binding, pgTimeZone, db>>

\* lines 311..315: ROLLBACK, rethrow, release.
pg_log_consumption_rollback(c) ==
    /\ binding = "pg"
    /\ tx[c].pc = "failed"
    /\ resp' = RespError(tx[c].error)
    /\ req' = Req("log_consumption", tx[c].events, NoFilter, Undef)
    /\ pre' = tx[c].pre
    /\ tx' = [tx EXCEPT ![c] = Release(tx[c], "ROLLBACK")]
    /\ UNCHANGED <<binding, pgTimeZone, db, table>>

(***************************************************************************)
(* The same call when the pool or a statement fails: the connection is     *)
(* lost, the server cancels the statement, a deadlock is broken.           *)
(***************************************************************************)
\* line 273: pool.connect() rejects; the call throws before the try block.
pg_log_consumption_connect_fails(events) ==
    /\ binding = "pg"
    /\ events # <<>>
    /\ resp' = RespError("connect failed")
    /\ req' = Req("log_consumption", events, NoFilter, Undef)
    /\ pre' = table
    /\ UNCHANGED <<binding, pgTimeZone, db, table, tx>>

\* lines 273..275: the connection is acquired and BEGIN rejects.
pg_log_consumption_begin_fails(c, events) ==
    /\ binding = "pg"
    /\ tx[c].pc = "idle"
    /\ events # <<>>
    /\ Cardinality(table) + Len(events) <= MaxStore
    /\ tx' = [tx EXCEPT ![c] = [pc |-> "failed", events |-> events, i |-> 1,
                                writes |-> <<>>, pre |-> table,
                                error |-> "BEGIN failed",
                                cmds |-> <<"BEGIN">>, held |-> TRUE,
                                released |-> 0]]
    /\ UNCHANGED <<binding, pgTimeZone, db, table, pre, req, resp>>

\* lines 296..307: the INSERT of a valid event rejects.
pg_log_consumption_insert_fails(c) ==
    /\ binding = "pg"
    /\ tx[c].pc = "loop"
    /\ tx[c].i <= Len(tx[c].events)
    /\ PgValid(tx[c].events[tx[c].i])
    /\ tx' = [tx EXCEPT ![c].pc = "failed", ![c].error = "INSERT failed",
                        ![c].cmds = Append(@, "INSERT")]
    /\ UNCHANGED <<binding, pgTimeZone, db, table, pre, req, resp>>

\* line 309: COMMIT rejects.  The server may have committed before the
\* failure reached the client (applied) or not.
pg_log_consumption_commit_fails(c, applied) ==
    /\ binding = "pg"
    /\ tx[c].pc = "loop"
    /\ tx[c].i > Len(tx[c].events)
    /\ table' = IF applied THEN PgApply(table, tx[c].writes) ELSE table
    /\ tx' = [tx EXCEPT ![c].pc = "failed", ![c].error = "COMMIT failed",
                        ![c].cmds = Append(@, "COMMIT"),
                        ![c].writes = IF applied THEN <<>> ELSE @]
    /\ UNCHANGED <<binding, pgTimeZone, db, pre, req, resp>>

\* The catch block with the release after the ROLLBACK, inside the catch,
\* instead of in a finally block: a rejecting ROLLBACK skips it.
pg_log_consumption_rollback_fails_no_finally(c) ==
    /\ binding = "pg"
    /\ tx[c].pc = "failed"
    /\ resp' = RespError("ROLLBACK failed")
    /\ req' = Req("log_consumption", tx[c].events, NoFilter, Undef)
    /\ pre' = tx[c].pre
    /\ tx' = [tx EXCEPT ![c] = [TxIdle EXCEPT !.cmds = Append(tx[c].cmds, "ROLLBACK"),
                                              !.held = TRUE]]
    /\ UNCHANGED <<binding, pgTimeZone, db, table>>

\* lines 311..315: ROLLBACK rejects; its error leaves the catch block, the
\* finally block releases the connection.
pg_log_consumption_rollback_fails(c) ==
    /\ binding = "pg"
    /\ tx[c].pc = "failed"
    /\ resp' = RespError("ROLLBACK failed")
    /\ req' = Req("log_consumption", tx[c].events, NoFilter, Undef)
    /\ pre' = tx[c].pre
    /\ tx' = [tx EXCEPT ![c] = Release(tx[c], "ROLLBACK")]
    /\ UNCHANGED <<binding, pgTimeZone, db, table>>

\* lines 324..326 (and 358..360): the WHERE clause.
PgWhere(row, f, tz) ==
    /\ Falsy(f.user_id) \/ row.user_id = f.user_id
    /\ f.from = 0 \/ PgDate(row.ts, tz) >= f.from
    /\ f.to = 0 \/ PgDate(row.ts, tz) <= f.to

\* line 333: ORDER BY ts ASC; rows of equal ts come in any order.
PgOrderBy(rows) ==
    {s \in [1..Cardinality(rows) -> rows] :
        /\ \A i, j \in 1..Cardinality(rows) : i # j => s[i] # s[j]
        /\ \A i, j \in 1..Cardinality(rows) : i < j => s[i].ts <= s[j].ts}

\* lines 338..348: a row as list_consumption returns it.
PgEvent(r) ==
    [id |-> r.id, user_id |-> r.user_id, timestamp |-> ToISOString(r.ts),
     item |-> r.item, amount |-> r.amount, unit |-> r.unit, source |-> r.source,
     calories |-> r.calories, notes |-> r.notes]

PgEvents(s) == [i \in 1..Len(s) |-> PgEvent(s[i])]

\* lines 365..366: COALESCE(SUM(calories), 0) skips NULL; COUNT(*) does not.
RECURSIVE PgSum(_)
PgSum(rows) ==
    IF rows = {} THEN 0
    ELSE LET r == CHOOSE x \in rows : TRUE
         IN  (IF r.calories = NoNum THEN 0 ELSE r.calories) + PgSum(rows \ {r})

\* The aggregate with COUNT(calories) in place of COUNT(*): rows whose
\* calories is NULL go uncounted.
PgSummarizeCountCalories(rows, f, tz) ==
    RespSummary(PgSum({r \in rows : PgWhere(r, f, tz)}),
                Cardinality({r \in rows : PgWhere(r, f, tz) /\ r.calories # NoNum}))

\* lines 354..377
PgSummarize(rows, f, tz) ==
    RespSummary(PgSum({r \in rows : PgWhere(r, f, tz)}),
                Cardinality({r \in rows : PgWhere(r, f, tz)}))

pg_list_consumption(f) ==
    /\ binding = "pg"
    /\ \E s \in PgOrderBy({r \in table : PgWhere(r, f, pgTimeZone)}) :
           resp' = RespEvents(PgEvents(s))
    /\ req' = Req("list_consumption", <<>>, f, Undef)
    /\ pre' = table
    /\ UNCHANGED <<binding, pgTimeZone, db, table, tx>>

pg_summarize_intake(f) ==
    /\ binding = "pg"
    /\ resp' = PgSummarize(table, f, pgTimeZone)
    /\ req' = Req("summarize_intake", <<>>, f, Undef)
    /\ pre' = table
    /\ UNCHANGED <<binding, pgTimeZone, db, table, tx>>

(***************************************************************************)
(* The POST dispatcher, lines 79..92 and 399..413.  `tools` is an object   *)
(* literal, so `name in tools` holds for its three own properties and for  *)
(* every property it inherits from Object.prototype.                       *)
(***************************************************************************)
ToolNames == {"log_consumption", "list_consumption", "summarize_intake"}

\* Inherited properties that are functions, and one that is not.
InheritedFunctions == {"toString", "constructor"}
InheritedValues == {"__proto__"}

\* Operation names a request may carry besides the three tools: none, one
\* no object has, and inherited ones.
OtherNames == {Undef, "delete_all"} \cup InheritedFunctions \cup InheritedValues

\* name in tools
InTools(name) == name \in ToolNames \cup InheritedFunctions \cup InheritedValues

\* A 200 answer that carries whatever the called function returned.
RespValue == Resp("value", "", 0, <<>>, 0, 0)

\* lines 83..88: the answer for a name that is not an own tool.  An
\* inherited function is called and its result sent with status 200;
\* calling a value that is no function throws, which line 90 answers.
Dispatch(name) ==
    IF Falsy(name) \/ ~InTools(name) THEN RespError("Unknown or missing tool")
    ELSE IF name \in InheritedFunctions THEN RespValue
    ELSE RespError("tools[name] is not a function")

\* sendJson's status code: 400 for an error body, lines 84 and 90, else 200.
Status(r) == IF r.kind = "error" THEN 400 ELSE 200

http_dispatch(name) ==
    /\ binding = "http"
    /\ resp' = Dispatch(name)
    /\ req' = Req(name, <<>>, NoFilter, Undef)
    /\ pre' = db
    /\ UNCHANGED <<binding, pgTimeZone, db, table, tx>>

pg_dispatch(name) ==
    /\ binding = "pg"
    /\ resp' = Dispatch(name)
    /\ req' = Req(name, <<>>, NoFilter, Undef)
    /\ pre' = table
    /\ UNCHANGED <<binding, pgTimeZone, db, table, tx>>

(***************************************************************************)
(* Initial state and specifications.                                       *)
(***************************************************************************)
Bindings == {"http", "mcp", "pg"}

\* The server's TimeZone setting: UTC, or a zone two hours east of it.
PgTimeZones == {0, 2}

Init ==
    /\ binding \in Bindings
    /\ pgTimeZone \in (IF binding = "pg" THEN PgTimeZones ELSE {0})
    /\ db = <<>>
    /\ table = {}
    /\ tx = [c \in Conns |-> TxIdle]
    /\ pre = (IF binding = "pg" THEN {} ELSE <<>>)
    /\ req = ReqNone
    /\ resp = RespNone

\* Calls in sequence: the relational binding uses one connection, and a
\* call starts when no other is in flight.
SeqConns == {"c1"}
PgQuiet == \A c \in Conns : tx[c].pc = "idle"

NextOver(E, max, F) ==
    \/ \E events \in Batches(E, max) : http_log_consumption(events)
    \/ \E f \in F : http_list_consumption(f)
    \/ \E f \in F : http_summarize_intake(f)
    \/ \E events \in Batches(E, max), user \in McpUsers : mcp_log_consumption(events, user)
    \/ \E f \in F : mcp_list_consumption(f)
    \/ \E f \in F : mcp_summarize_intake(f)
    \/ PgQuiet /\ pg_log_consumption_empty
    \/ \E c \in SeqConns, events \in Batches(E, max) : pg_log_consumption_begin(c, events)
    \/ \E c \in SeqConns : pg_log_consumption_insert(c)
    \/ \E c \in SeqConns : pg_log_consumption_commit(c)
    \/ \E c \in SeqConns : pg_log_consumption_rollback(c)
    \/ \E f \in F : PgQuiet /\ pg_list_consumption(f)
    \/ \E f \in F : PgQuiet /\ pg_summarize_intake(f)
    \/ \E name \in OtherNames : http_dispatch(name)
    \/ \E name \in OtherNames : PgQuiet /\ pg_dispatch(name)

Next == NextOver(IngestEvents, MaxBatch, IngestFilters)
Spec == Init /\ [][Next]_vars

NextQuery == NextOver(QueryEvents, MaxQueryBatch, QueryFilters)
SpecQuery == Init /\ [][NextQuery]_vars

\* The relational binding alone, in a session whose TimeZone is UTC.
InitPg == Init /\ binding = "pg" /\ pgTimeZone = 0

\* Calls in sequence on one connection, with failing statements.
NextPg ==
    \/ pg_log_consumption_empty
    \/ \E c \in SeqConns, events \in Batches(TxEvents, MaxPgBatch) :
           pg_log_consumption_begin(c, events)
    \/ \E c \in SeqConns : pg_log_consumption_insert(c)
    \/ \E c \in SeqConns : pg_log_consumption_commit(c)
    \/ \E c \in SeqConns : pg_log_consumption_rollback(c)
    \/ \E events \in Batches(TxEvents, MaxPgBatch) :
           pg_log_consumption_connect_fails(events)
    \/ \E c \in SeqConns, events \in Batches(TxEvents, MaxPgBatch) :
           pg_log_consumption_begin_fails(c, events)
    \/ \E c \in SeqConns : pg_log_consumption_insert_fails(c)
    \/ \E c \in SeqConns, applied \in BOOLEAN :
           pg_log_consumption_commit_fails(c, applied)
    \/ \E c \in SeqConns : pg_log_consumption_rollback_fails(c)

SpecPg == InitPg /\ [][NextPg]_vars

\* Calls in flight on both connections at once.  An INSERT that waits for
\* a row another transaction holds may be the victim of a broken deadlock.
NextPgConcurrent ==
    \/ \E c \in Conns, events \in Batches(ConcurrentEvents, MaxConcurrentBatch) :
           pg_log_consumption_begin(c, events)
    \/ \E c \in Conns : pg_log_consumption_insert(c)
    \/ \E c \in Conns : pg_log_consumption_commit(c)
    \/ \E c \in Conns : pg_log_consumption_rollback(c)
    \/ \E c \in Conns : pg_log_consumption_insert_fails(c)

SpecPgConcurrent == InitPg /\ [][NextPgConcurrent]_vars

(***************************************************************************)
(* The in-memory HTTP binding and the relational binding side by side:     *)
(* every call goes to both, db and table start empty, and resp holds the   *)
(* answer of each.  The relational call runs alone and no statement fails. *)
(***************************************************************************)
\* lines 269..317 run to the end: the loop from event i on with the rows
\* written so far, then COMMIT, or ROLLBACK at the first failure.
RECURSIVE PgLogLoop(_, _, _, _)
PgLogLoop(rows, events, i, writes) ==
    IF i > Len(events)
    THEN [table |-> PgApply(rows, writes), resp |-> RespSaved(Len(events))]
    ELSE LET e == events[i]
             row == PgRow(e, randomUUID({r.id : r \in rows} \cup IdsOf(writes)))
         IN  IF ~PgValid(e)
             THEN [table |-> rows, resp |-> RespError("Invalid event")]
             ELSE IF ~PgConstraints(row)
             THEN [table |-> rows, resp |-> RespError("violates check constraint")]
             ELSE PgLogLoop(rows, events, i + 1, Append(writes, row))

\* lines 269..271 and 273..317
PgLog(rows, events) ==
    IF events = <<>> THEN [table |-> rows, resp |-> RespSaved(0)]
    ELSE PgLogLoop(rows, events, 1, <<>>)

BothResp(h, p) == [http |-> h, pg |-> p]

both_log_consumption(events) ==
    /\ binding = "both"
    /\ Len(db) + Len(events) <= MaxStore
    /\ db' = HttpLogLoop(db, events, 1).db
    /\ table' = PgLog(table, events).table
    /\ resp' = BothResp(HttpLogLoop(db, events, 1).resp, PgLog(table, events).resp)
    /\ req' = Req("log_consumption", events, NoFilter, Undef)
    /\ UNCHANGED <<binding, pgTimeZone, tx, pre>>

both_list_consumption(f) ==
    /\ binding = "both"
    /\ \E s \in PgOrderBy({r \in table : PgWhere(r, f, pgTimeZone)}) :
           resp' = BothResp(RespEvents(HttpList(db, f)), RespEvents(PgEvents(s)))
    /\ req' = Req("list_consumption", <<>>, f, Undef)
    /\ UNCHANGED <<binding, pgTimeZone, db, table, tx, pre>>

both_summarize_intake(f) ==
    /\ binding = "both"
    /\ resp' = BothResp(HttpSummarize(db, f), PgSummarize(table, f, pgTimeZone))
    /\ req' = Req("summarize_intake", <<>>, f, Undef)
    /\ UNCHANGED <<binding, pgTimeZone, db, table, tx, pre>>

InitBoth ==
    /\ binding = "both"
    /\ pgTimeZone = 0
    /\ db = <<>>
    /\ table = {}
    /\ tx = [c \in Conns |-> TxIdle]
    /\ pre = <<>>
    /\ req = ReqNone
    /\ resp = BothResp(RespNone, RespNone)

NextBoth ==
    \/ \E events \in Batches(IngestEvents, MaxBatch) : both_log_consumption(events)
    \/ \E f \in IngestFilters : both_list_consumption(f)
    \/ \E f \in IngestFilters : both_summarize_intake(f)

SpecBoth == InitBoth /\ [][NextBoth]_vars

\* Calls over the events that share an id, one without an id and one
\* invalid event.
NextUpsert == NextOver(UpsertEvents, MaxBatch, IngestFilters)
SpecUpsert == Init /\ [][NextUpsert]_vars

(***************************************************************************)
(* The store as the claims speak of it: a sequence of event records.  For  *)
(* the relational binding, the committed rows as list_consumption renders  *)
(* them.                                                                   *)
(***************************************************************************)
RowsAsEvents(rows) == PgEvents(CHOOSE s \in PgOrderBy(rows) : TRUE)

StoreSeq == IF binding = "pg" THEN RowsAsEvents(table) ELSE db
PreSeq == IF binding = "pg" THEN RowsAsEvents(pre) ELSE pre
StoreUnchanged == IF binding = "pg" THEN table = pre ELSE db = pre

\* The Validator of the specification: timestamp, item, amount, unit.
SpecValid(e) ==
    /\ e.timestamp.k = "iso"
    /\ ~Falsy(e.item)
    /\ e.amount # NoNum
    /\ e.unit \in Units

\* The record the specification stores for a valid event that carries an id.
Submitted(e) ==
    [e EXCEPT !.user_id = IF e.user_id = Undef THEN "u1" ELSE e.user_id,
              !.source = IF e.source = Undef THEN "manual" ELSE e.source]

\* Record r carries every field event e submitted, with the submitted value.
Carries(r, e) ==
    /\ e.id # NoId => r.id = e.id
    /\ e.user_id # Undef => r.user_id = e.user_id
    /\ r.timestamp = e.timestamp
    /\ r.item = e.item
    /\ r.amount = e.amount
    /\ r.unit = e.unit
    /\ e.source # Undef => r.source = e.source
    /\ e.calories # NoNum => r.calories = e.calories
    /\ e.notes # Undef => r.notes = e.notes

IsLog == req.op = "log_consumption"

\* The event lacks a field every binding requires (the claim's "missing
\* unit"); a unit outside the enumeration is the matter of C10.
MissingRequired(e) ==
    TsFalsy(e.timestamp) \/ Falsy(e.item) \/ e.amount = NoNum \/ Falsy(e.unit)

(***************************************************************************)
(* C1: a log_consumption batch that contains an event failing validation   *)
(* (a required field missing) fails with "Invalid event" and leaves the    *)
(* Store as it was before the call, in every binding: no record of the     *)
(* batch, the valid events before the invalid one included, is present.    *)
(***************************************************************************)
C1_BatchAtomic ==
    (IsLog /\ \E i \in DOMAIN req.events : MissingRequired(req.events[i]))
        => /\ resp.kind = "error"
           /\ resp.error = "Invalid event"
           /\ StoreUnchanged

(***************************************************************************)
(* C2: in every reachable Store state no two records have the same id.     *)
(***************************************************************************)
C2_UniqueIds ==
    \A i, j \in DOMAIN StoreSeq : StoreSeq[i].id = StoreSeq[j].id => i = j

(***************************************************************************)
(* C3: when the Store holds a record under id X and a valid event with id  *)
(* X and different field values is ingested, the Store afterwards holds    *)
(* exactly one record under X, and every field of it has the submitted     *)
(* value (an absent field its default or absent value).                    *)
(***************************************************************************)
C3_Replacement ==
    (/\ IsLog
     /\ Len(req.events) = 1
     /\ SpecValid(req.events[1])
     /\ req.events[1].id # NoId
     /\ \E k \in DOMAIN PreSeq : /\ PreSeq[k].id = req.events[1].id
                                 /\ PreSeq[k] # Submitted(req.events[1]))
        => /\ Cardinality({k \in DOMAIN StoreSeq : StoreSeq[k].id = req.events[1].id}) = 1
           /\ \A k \in DOMAIN StoreSeq :
                  StoreSeq[k].id = req.events[1].id => StoreSeq[k] = Submitted(req.events[1])

(***************************************************************************)
(* C4: ingesting the same valid event (same id, same fields) in a second   *)
(* call leaves the Store as it was after the first, and both calls return  *)
(* saved_count equal to the batch size.                                    *)
(***************************************************************************)
C4_Idempotent ==
    [][(/\ IsLog
        /\ resp.kind = "saved"
        /\ Len(req.events) = 1
        /\ SpecValid(req.events[1])
        /\ req.events[1].id # NoId
        /\ req' = req)
           => /\ db' = db
              /\ table' = table
              /\ resp.saved_count = 1
              /\ resp'.kind = "saved"
              /\ resp'.saved_count = 1]_vars

(***************************************************************************)
(* C5: after a valid batch B (no id submitted twice) is ingested into an   *)
(* empty Store, list_consumption with no owner and no date bounds returns  *)
(* exactly the records of B, by the submitted ids, each with every         *)
(* submitted field intact.                                                 *)
(***************************************************************************)
RoundTrip(B, L) ==
    /\ Len(L) = Len(B)
    /\ \A i \in DOMAIN B : \E k \in DOMAIN L : Carries(L[k], B[i])
    /\ \A k \in DOMAIN L : \E i \in DOMAIN B : Carries(L[k], B[i])

DistinctIds(B) ==
    \A i, j \in DOMAIN B : (B[i].id # NoId /\ B[i].id = B[j].id) => i = j

C5_IngestThenList ==
    [][(/\ IsLog
        /\ resp.kind = "saved"
        /\ PreSeq = <<>>
        /\ \A i \in DOMAIN req.events : SpecValid(req.events[i])
        /\ DistinctIds(req.events)
        /\ req'.op = "list_consumption"
        /\ req'.filter = NoFilter)
           => RoundTrip(req.events, resp'.events)]_vars

(***************************************************************************)
(* C6: the sequence list_consumption returns is ordered ascending by full  *)
(* timestamp: of two adjacent records the earlier one's timestamp is <=    *)
(* the later one's.                                                        *)
(***************************************************************************)
C6_ListAscending ==
    resp.kind = "events"
        => \A k \in 1..(Len(resp.events) - 1) :
               NewDate(resp.events[k].timestamp) <= NewDate(resp.events[k + 1].timestamp)

(***************************************************************************)
(* C7: list_consumption(user_id, from, to) returns exactly the stored      *)
(* records of that owner whose timestamp's first 10 characters are >= from *)
(* (when from is given) and <= to (when to is given): both bounds are      *)
(* inclusive and read the calendar-date prefix only, never the time.       *)
(***************************************************************************)
DatePrefix(t) == IF t.k = "iso" THEN t.d ELSE 0

InDateRange(r, f) ==
    /\ f.user_id = "" \/ r.user_id = f.user_id
    /\ f.from = 0 \/ DatePrefix(r.timestamp) >= f.from
    /\ f.to = 0 \/ DatePrefix(r.timestamp) <= f.to

C7_DateRange ==
    req.op = "list_consumption"
        => /\ \A k \in DOMAIN resp.events :
                  /\ InDateRange(resp.events[k], req.filter)
                  /\ \E j \in DOMAIN StoreSeq : StoreSeq[j] = resp.events[k]
           /\ \A j \in DOMAIN StoreSeq :
                  InDateRange(StoreSeq[j], req.filter)
                      => \E k \in DOMAIN resp.events : resp.events[k] = StoreSeq[j]
           /\ Len(resp.events)
                  = Cardinality({j \in DOMAIN StoreSeq : InDateRange(StoreSeq[j], req.filter)})

(***************************************************************************)
(* C8: for distinct owners a and b, no record of a appears in the result   *)
(* of list_consumption scoped to b, and none contributes to the            *)
(* total_calories or events_count of summarize_intake scoped to b: the     *)
(* summary is the one the Store gives with every record of another owner   *)
(* removed.                                                                *)
(***************************************************************************)
SummaryOfOwnerOnly(f) ==
    IF binding = "http"
    THEN HttpSummarize(SelectSeq(db, LAMBDA e : e.user_id = f.user_id), f)
    ELSE IF binding = "mcp"
    THEN McpSummarize(SelectSeq(db, LAMBDA e : e.user_id = f.user_id), f)
    ELSE PgSummarize({r \in table : r.user_id = f.user_id}, f, pgTimeZone)

C8_OwnerIsolation ==
    /\ (req.op = "list_consumption" /\ req.filter.user_id # "")
           => \A k \in DOMAIN resp.events : resp.events[k].user_id = req.filter.user_id
    /\ (req.op = "summarize_intake" /\ req.filter.user_id # "")
           => resp = SummaryOfOwnerOnly(req.filter)

\* A summary scoped to b over a Store that also holds a's calories.
C8_Witness ==
    /\ req.op = "summarize_intake"
    /\ req.filter = Filter("b", 0, 0)
    /\ resp.events_count = 1
    /\ \E j \in DOMAIN StoreSeq : StoreSeq[j].user_id = "a" /\ StoreSeq[j].calories = 100

(***************************************************************************)
(* C9: summarize_intake returns events_count equal to the number of        *)
(* records list_consumption returns for the same filter, and               *)
(* total_calories equal to the sum of their calories, an absent calories   *)
(* counting as 0 and its record still being counted.                       *)
(***************************************************************************)
ListOf(f) ==
    IF binding = "http" THEN HttpList(db, f)
    ELSE IF binding = "mcp" THEN list(db, f)
    ELSE RowsAsEvents({r \in table : PgWhere(r, f, pgTimeZone)})

RECURSIVE CaloriesOf(_)
CaloriesOf(events) ==
    IF events = <<>> THEN 0
    ELSE (IF Head(events).calories = NoNum THEN 0 ELSE Head(events).calories)
         + CaloriesOf(Tail(events))

C9_SummaryOfList ==
    req.op = "summarize_intake"
        => /\ resp.kind = "summary"
           /\ resp.events_count = Len(ListOf(req.filter))
           /\ resp.total_calories = CaloriesOf(ListOf(req.filter))

\* Calories 100, absent and 50 of one owner: 150 over 3 events.
C9_Witness ==
    /\ req.op = "summarize_intake"
    /\ req.filter = Filter("a", 0, 0)
    /\ \E j \in DOMAIN StoreSeq : StoreSeq[j].user_id = "a" /\ StoreSeq[j].calories = NoNum
    /\ resp.total_calories = 150
    /\ resp.events_count = 3

(***************************************************************************)
(* C10: every stored record has a non-empty timestamp, a non-empty item, a *)
(* numeric amount and a unit among g, ml, piece, serving; an event whose   *)
(* unit is another non-empty string is rejected with "Invalid event"       *)
(* before any write.                                                       *)
(***************************************************************************)
C10_StoredRecordsValid ==
    /\ \A k \in DOMAIN StoreSeq :
           /\ StoreSeq[k].timestamp.k = "iso"
           /\ ~Falsy(StoreSeq[k].item)
           /\ StoreSeq[k].amount # NoNum
           /\ StoreSeq[k].unit \in Units
    /\ (IsLog /\ \E i \in DOMAIN req.events :
                     ~Falsy(req.events[i].unit) /\ req.events[i].unit \notin Units)
           => resp.kind = "error" /\ resp.error = "Invalid event"

(***************************************************************************)
(* C11: a request whose operation name is not log_consumption,             *)
(* list_consumption or summarize_intake (a missing name, a name no object  *)
(* has, a name every object inherits such as "toString" or "constructor")  *)
(* is answered with status 400 and an error, never with a success, and     *)
(* the Store is unchanged.                                                 *)
(***************************************************************************)
C11_UnknownOperationRejected ==
    (req.op \notin ToolNames /\ req # ReqNone)
        => /\ Status(resp) = 400
           /\ resp.kind = "error"
           /\ StoreUnchanged

DefaultOwner == IF Falsy(req.user) THEN "u1" ELSE req.user

\* The store holds a record of event e with the given owner and source.
StoredWith(e, owner, source) ==
    \E k \in DOMAIN StoreSeq :
        /\ StoreSeq[k].item = e.item
        /\ StoreSeq[k].amount = e.amount
        /\ StoreSeq[k].unit = e.unit
        /\ StoreSeq[k].user_id = owner
        /\ StoreSeq[k].source = source

C13_DefaultsAssigned ==
    (IsLog /\ Len(req.events) = 1 /\ SpecValid(req.events[1]))
        => LET e == req.events[1]
           IN  /\ (e.user_id = Undef /\ e.source = Undef)
                      => (resp.kind = "saved" /\ StoredWith(e, DefaultOwner, "manual"))
               /\ (e.user_id # Undef /\ e.source # Undef)
                      => (resp.kind = "saved" /\ StoredWith(e, e.user_id, e.source))

(***************************************************************************)
(* C14: in the relational binding every log_consumption call that acquires *)
(* a pooled connection releases it exactly once before the call returns or *)
(* throws, on every path: a successful COMMIT, a validation failure, a     *)
(* failing INSERT, a failing BEGIN or COMMIT, a failing ROLLBACK.  After   *)
(* any sequence of calls no connection is held.                            *)
(***************************************************************************)
ConnectionsHeld == Cardinality({c \in Conns : tx[c].held})

C14_ConnectionReleased ==
    /\ \A c \in Conns :
           /\ tx[c].pc # "idle" => (tx[c].held /\ tx[c].released = 0)
           /\ tx[c].pc = "idle" => ~tx[c].held
           /\ (tx[c].pc = "idle" /\ tx[c].cmds # <<>>) => tx[c].released = 1
    /\ PgQuiet => ConnectionsHeld = 0

\* A call whose COMMIT failed and whose ROLLBACK failed after it is over.
C14_Witness ==
    /\ tx["c1"].pc = "idle"
    /\ tx["c1"].cmds = <<"BEGIN", "INSERT", "COMMIT", "ROLLBACK">>
    /\ resp = RespError("ROLLBACK failed")
    /\ tx["c1"].released = 1

(***************************************************************************)
(* C15: in the relational binding, when two log_consumption calls run      *)
(* concurrently on different connections and both write a record with the  *)
(* same id, then once both have committed the Store holds exactly one      *)
(* record for that id, with the fields written by the transaction that     *)
(* committed last; a transaction that rolled back contributes nothing.     *)
(* As a property of steps: a COMMIT leaves, for every id the transaction   *)
(* wrote, exactly one row, the one it wrote last; a ROLLBACK leaves the    *)
(* table as it was; and no other step changes the table.                   *)
(***************************************************************************)
CommitStep(c) == tx[c].pc = "loop" /\ tx'[c].pc = "idle"
RollbackStep(c) == tx[c].pc = "failed" /\ tx'[c].pc = "idle"

\* Position k holds the last write of its id among writes w.
LastWrite(w, k) == \A j \in DOMAIN w : j > k => w[j].id # w[k].id

LastCommitWinsStep ==
    /\ \A c \in Conns :
           /\ CommitStep(c)
                  => \A k \in DOMAIN tx[c].writes :
                         LastWrite(tx[c].writes, k)
                             => {r \in table' : r.id = tx[c].writes[k].id}
                                    = {tx[c].writes[k]}
           /\ RollbackStep(c) => table' = table
    /\ table' # table => \E o \in Conns : CommitStep(o)

C15_LastCommitWins == [][LastCommitWinsStep]_vars

\* Both connections have committed a call that wrote one row.  The call
\* that committed last wrote EvMilk under id 7 and began while the table
\* was empty, so before the other call committed its row of id 7.
C15_Witness ==
    /\ \A c \in Conns : tx[c].pc = "idle" /\ tx[c].cmds = <<"BEGIN", "INSERT", "COMMIT">>
    /\ resp = RespSaved(1)
    /\ req.events = <<EvMilk>>
    /\ pre = {}
    /\ table = {PgRow(EvMilk, NoId)}

(***************************************************************************)
(* C16: list_consumption and summarize_intake leave the Store unchanged:   *)
(* the records, their field values and their order are the same after the *)
(* call as before it, in every binding.                                    *)
(***************************************************************************)
IsQuery == req.op \in {"list_consumption", "summarize_intake"}

C16_QueriesReadOnly == IsQuery => StoreUnchanged

\* A listing that returned two of the three stored records.
C16_Witness ==
    /\ req.op = "list_consumption"
    /\ Len(StoreSeq) = 3
    /\ Len(resp.events) = 2

(***************************************************************************)
(* C18: no operation removes a record: the ids present in the Store after  *)
(* a call include every id present before it, so a record once stored      *)
(* stays (possibly with replaced fields) across any sequence of calls.     *)
(***************************************************************************)
C18_NoRecordRemoved == IdsOf(PreSeq) \subseteq IdsOf(StoreSeq)

\* A call that replaced a stored record: as many records as before.
C18_Witness ==
    /\ IsLog
    /\ binding = "pg"
    /\ resp.kind = "saved"
    /\ pre # {}
    /\ table # pre
    /\ Cardinality(table) = Cardinality(pre)

(***************************************************************************)
(* C19: in the relational binding each non-empty log_consumption call      *)
(* follows the transaction protocol BEGIN, then zero or more upserts, then *)
(* exactly one terminating step: COMMIT is issued only after every event   *)
(* of the batch has passed validation and been written, and on a           *)
(* validation or write failure ROLLBACK is issued and COMMIT never is; the *)
(* call never returns saved_count for a transaction that was rolled back.  *)
(***************************************************************************)
Last(s) == s[Len(s)]
Count(s, x) == Cardinality({k \in DOMAIN s : s[k] = x})

\* BEGIN first and only first, the INSERTs right after it, ROLLBACK last.
ProtocolOrder(cs) ==
    cs # <<>> =>
        /\ cs[1] = "BEGIN"
        /\ \A k \in DOMAIN cs :
               /\ cs[k] = "BEGIN" => k = 1
               /\ cs[k] = "INSERT" => cs[k - 1] \in {"BEGIN", "INSERT"}
               /\ cs[k] = "COMMIT" => cs[k - 1] \in {"BEGIN", "INSERT"}
               /\ cs[k] = "ROLLBACK" => k = Len(cs)

\* The step sends COMMIT on connection c.
CommitSent(c) ==
    /\ Len(tx'[c].cmds) = Len(tx[c].cmds) + 1
    /\ Last(tx'[c].cmds) = "COMMIT"

\* The call on connection c ends in this step.
CallEnds(c) == tx[c].pc # "idle" /\ tx'[c].pc = "idle"

\* The call on connection c has hit an invalid event or a rejected INSERT.
ValidationOrWriteFailure(c) ==
    /\ tx[c].pc = "failed"
    /\ tx[c].error \in {"Invalid event", "violates check constraint", "INSERT failed"}

\* What the claim says of COMMIT, of failures and of the value returned.
CommitAndRollbackRules(c) ==
    /\ CommitSent(c)
           => /\ \A k \in DOMAIN tx[c].events : PgValid(tx[c].events[k])
              /\ Count(tx[c].cmds, "INSERT") = Len(tx[c].events)
              /\ Len(tx[c].writes) = Len(tx[c].events)
    /\ ValidationOrWriteFailure(c)
           => /\ Count(tx'[c].cmds, "COMMIT") = 0
              /\ CallEnds(c) => Last(tx'[c].cmds) = "ROLLBACK"
    /\ (CallEnds(c) /\ resp'.kind = "saved")
           => /\ Count(tx'[c].cmds, "ROLLBACK") = 0
              /\ Last(tx'[c].cmds) = "COMMIT"
              /\ resp'.saved_count = Len(tx[c].events)

\* The claim as stated: one terminating statement per call.
C19_TransactionProtocol ==
    [][\A c \in Conns :
           /\ ProtocolOrder(tx'[c].cmds)
           /\ CommitAndRollbackRules(c)
           /\ Count(tx'[c].cmds, "COMMIT") + Count(tx'[c].cmds, "ROLLBACK") <= 1
           /\ CallEnds(c)
                  => Count(tx'[c].cmds, "COMMIT") + Count(tx'[c].cmds, "ROLLBACK") = 1]_vars

\* The claim with the terminating step amended: one COMMIT at most, one
\* ROLLBACK at most, one of them at least; both only when COMMIT was
\* rejected, and then the call throws.
C19_ProtocolWithFailedCommit ==
    [][\A c \in Conns :
           /\ ProtocolOrder(tx'[c].cmds)
           /\ CommitAndRollbackRules(c)
           /\ Count(tx'[c].cmds, "COMMIT") <= 1
           /\ Count(tx'[c].cmds, "ROLLBACK") <= 1
           /\ CallEnds(c)
                  => /\ Last(tx'[c].cmds) \in {"COMMIT", "ROLLBACK"}
                     /\ Count(tx'[c].cmds, "COMMIT") + Count(tx'[c].cmds, "ROLLBACK") = 2
                            => (tx[c].error = "COMMIT failed" /\ resp'.kind = "error")]_vars

\* A call whose COMMIT was rejected has ended with a ROLLBACK.
C19_Witness ==
    /\ tx["c1"].pc = "idle"
    /\ tx["c1"].cmds = <<"BEGIN", "INSERT", "INSERT", "COMMIT", "ROLLBACK">>
    /\ resp = RespError("COMMIT failed")

(***************************************************************************)
(* C17: the in-memory and the relational Store expose identical semantics: *)
(* from empty stores and the same sequence of log_consumption calls, every *)
(* list_consumption and summarize_intake call with the same filter returns *)
(* the same records (ids, field values, order) and the same totals from    *)
(* both.                                                                   *)
(***************************************************************************)
C17_StoresAgree == IsQuery => resp.http = resp.pg

====
